---- MODULE Spec2Model ----
(***************************************************************************)
(* Trade reconciliation: the matching engine (engine.py), the orchestrator *)
(* (orchestration.py) and the run endpoint (api_routes.py).                *)
(*                                                                         *)
(* Prices are integers in cents, quantities are signed integers, trade     *)
(* times are minutes, settlement dates are days.  The engine's float       *)
(* arithmetic is modelled with exact fractions [n, d].                     *)
(***************************************************************************)
EXTENDS Integers, Sequences, FiniteSets, TLC

VARIABLES
    eInternal,      \* match_trades: internal_trades argument
    eExternal,      \* match_trades: external_trades argument
    eConfig,        \* TradeMatchingEngine.config
    eIdx,           \* position of the loop that is running
    eMatches,       \* matches
    eBreaks,        \* breaks
    eMatchedIds,    \* matched_external_ids
    ePc,            \* "running" | "done" | "raised"
    req,            \* the requests: trade_date and force_rerun of each
    feeds,          \* what the three sources hold, and the matching config
    pc,             \* where each request is
    loc,            \* the local variables of each request's run
    sess,           \* each request's database session: uncommitted changes
    dbRuns,         \* committed rows of reconciliation_runs
    dbTrades,       \* committed rows of trades
    dbBreaks,       \* committed rows of breaks
    rInput,         \* the breaks handed to the classifier
    rBreaks,        \* the categorized breaks handed to batch_auto_resolve
    rResults,       \* what each call of batch_auto_resolve returned
    rNow,           \* datetime.utcnow()
    rPc             \* "input" | "classified" | "raised"

engineVars == <<eInternal, eExternal, eConfig, eIdx, eMatches, eBreaks,
                eMatchedIds, ePc>>

runVars == <<req, feeds, pc, loc, sess, dbRuns, dbTrades, dbBreaks>>

resolverVars == <<rInput, rBreaks, rResults, rNow, rPc>>

vars == <<eInternal, eExternal, eConfig, eIdx, eMatches, eBreaks,
          eMatchedIds, ePc, req, feeds, pc, loc, sess, dbRuns, dbTrades,
          dbBreaks, rInput, rBreaks, rResults, rNow, rPc>>

-----------------------------------------------------------------------------
(* Arithmetic on fractions *)

Abs(x) == IF x < 0 THEN -x ELSE x

RECURSIVE GCD(_, _)
GCD(a, b) == IF b = 0 THEN a ELSE GCD(b, a % b)

\* the fraction n/d in lowest terms with a positive denominator (d # 0)
Frac(n, d) ==
    LET g == GCD(Abs(n), Abs(d))
        s == IF d < 0 THEN -1 ELSE 1
    IN  [n |-> s * (n \div g) , d |-> Abs(d) \div g]

LCM(a, b) == (a \div GCD(a, b)) * b

FAdd(x, y) ==
    LET l == LCM(x.d, y.d)
    IN  Frac(x.n * (l \div x.d) + y.n * (l \div y.d), l)

FSub(x, y) == FAdd(x, [n |-> -y.n, d |-> y.d])

FMul(x, y) ==
    LET a == Frac(x.n, y.d)
        b == Frac(y.n, x.d)
    IN  Frac(a.n * b.n, a.d * b.d)

\* x / y for y # 0
FDiv(x, y) == FMul(x, Frac(y.d, y.n))

FLeq(x, y) ==
    LET l == LCM(x.d, y.d)
    IN  x.n * (l \div x.d) <= y.n * (l \div y.d)

FLt(x, y) == ~FLeq(y, x)

FInt(k) == [n |-> k, d |-> 1]

-----------------------------------------------------------------------------
(* Trade dictionaries *)

\* the value of trade['id'] for a dictionary that has no 'id' key
NoId == 0

HasId(t) == t.id # NoId

Trade(id, trade_id, source, instrument_id, counterparty, quantity, price, trade_date, settlement_date) ==
    [id |-> id, trade_id |-> trade_id, source |-> source,
     instrument_id |-> instrument_id, counterparty |-> counterparty,
     quantity |-> quantity, price |-> price, trade_date |-> trade_date,
     settlement_date |-> settlement_date]

\* fuzz.ratio on the uppercased counterparty names of the model:
\* round(100 * 2 * M / T), M the matched characters, T the total length
fuzz_ratio(a, b) ==
    LET p == {a, b}
    IN  IF a = b THEN 100
        ELSE IF p = {"JPM", "JPMORGAN CHASE"} THEN 35
        ELSE IF p = {"GS", "GOLDMAN SACHS"} THEN 27
        ELSE IF p = {"JPM", "GS"} THEN 0
        ELSE IF p = {"JPM", "GOLDMAN SACHS"} THEN 12
        ELSE IF p = {"GS", "JPMORGAN CHASE"} THEN 25
        ELSE IF p = {"JPMORGAN CHASE", "GOLDMAN SACHS"} THEN 52
        ELSE 0

MatchConfig(min_match_score) ==
    [price_tolerance_percent    |-> Frac(1, 100),
     price_tolerance_absolute   |-> 1,
     quantity_tolerance_percent |-> Frac(1, 1000),
     time_window_hours          |-> 24,
     min_match_score            |-> min_match_score]

DefaultMatchConfig == MatchConfig(Frac(85, 100))

-----------------------------------------------------------------------------
(* TradeMatchingEngine *)

\* the three keys a trade is indexed and looked up under; a plain string key
\* s is <<s, "">>, the key "instrument_counterparty" is the pair
KeysOf(t) ==
    << <<t.instrument_id, "">>,
       <<t.instrument_id, t.counterparty>>,
       <<t.trade_id, "">> >>

\* how many of a row's keys equal key: the row is appended once per such key
KeyHits(t, key) == Cardinality({k \in 1..3 : KeysOf(t)[k] = key})

RECURSIVE Repeat(_, _)
Repeat(t, n) == IF n = 0 THEN <<>> ELSE <<t>> \o Repeat(t, n - 1)

\* external_index[key] of _create_lookup_index, <<>> when the key is absent
RECURSIVE IndexList(_, _)
IndexList(external, key) ==
    IF external = <<>> THEN <<>>
    ELSE Repeat(Head(external), KeyHits(Head(external), key))
         \o IndexList(Tail(external), key)

TimeDiffMinutes(internal, external) ==
    Abs(internal.trade_date - external.trade_date)

\* time_diff <= time_window_hours, time_diff in hours
InTimeWindow(internal, external, config) ==
    TimeDiffMinutes(internal, external) <= 60 * config.time_window_hours

\* the trades of one index list that _get_candidates reads: reading trade['id']
\* raises KeyError on the first trade without it
ListRaises(list) == \E k \in 1..Len(list) : ~HasId(list[k])

get_candidates_raises(internal, external, matched_ids) ==
    \E k \in 1..3 : ListRaises(IndexList(external, KeysOf(internal)[k]))

CandidatesOfList(internal, list, matched_ids, config) ==
    SelectSeq(list, LAMBDA t : /\ t.id \notin matched_ids
                               /\ InTimeWindow(internal, t, config))

get_candidates(internal, external, matched_ids, config) ==
    CandidatesOfList(internal, IndexList(external, KeysOf(internal)[1]),
                     matched_ids, config)
    \o CandidatesOfList(internal, IndexList(external, KeysOf(internal)[2]),
                        matched_ids, config)
    \o CandidatesOfList(internal, IndexList(external, KeysOf(internal)[3]),
                        matched_ids, config)

\* abs(internal[f] - external[f]) / internal[f]: signed like internal[f]
DiffPct(a, b) == Frac(Abs(a - b), a)

ProximityScore(diff_pct, tolerance) ==
    IF FLeq(diff_pct, tolerance)
    THEN FSub(FInt(1), FDiv(diff_pct, tolerance))
    ELSE FInt(0)

calculate_match_score(internal, external, config) ==
    LET instrument_score ==
            IF internal.instrument_id = external.instrument_id
            THEN FInt(1) ELSE FInt(0)
        counterparty_score ==
            Frac(fuzz_ratio(internal.counterparty, external.counterparty), 100)
        price_score ==
            ProximityScore(DiffPct(internal.price, external.price),
                           config.price_tolerance_percent)
        qty_score ==
            ProximityScore(DiffPct(internal.quantity, external.quantity),
                           config.quantity_tolerance_percent)
        time_diff_hours == Frac(TimeDiffMinutes(internal, external), 60)
        raw_time == FSub(FInt(1),
                         FDiv(time_diff_hours, FInt(config.time_window_hours)))
        time_score == IF FLeq(raw_time, FInt(0)) THEN FInt(0) ELSE raw_time
        total ==
            FAdd(instrument_score,
            FAdd(FMul(counterparty_score, Frac(8, 10)),
            FAdd(FMul(price_score, Frac(9, 10)),
            FAdd(FMul(qty_score, Frac(9, 10)),
                 FMul(time_score, Frac(6, 10))))))
    IN  FDiv(total, FInt(5))

validate_match(internal, external, config) ==
    LET price_diff_pct == DiffPct(internal.price, external.price)
        price_diff_abs == Abs(internal.price - external.price)
        qty_diff_pct == DiffPct(internal.quantity, external.quantity)
    IN  /\ ~(/\ FLt(config.price_tolerance_percent, price_diff_pct)
             /\ price_diff_abs > config.price_tolerance_absolute)
        /\ ~FLt(config.quantity_tolerance_percent, qty_diff_pct)
        /\ internal.instrument_id = external.instrument_id

\* the loop of _find_best_match over candidates[k..]: a candidate replaces the
\* best one only with a strictly greater score that reaches min_match_score
Better(best, candidate, score, config) ==
    IF FLt(best.score, score) /\ FLeq(config.min_match_score, score)
    THEN [found |-> TRUE, trade |-> candidate, score |-> score]
    ELSE best

RECURSIVE BestOf(_, _, _, _, _)
BestOf(internal, candidates, k, best, config) ==
    IF k > Len(candidates) THEN best
    ELSE BestOf(internal, candidates, k + 1,
                Better(best, candidates[k],
                       calculate_match_score(internal, candidates[k], config),
                       config),
                config)

NoBest == [found |-> FALSE, trade |-> Trade(NoId, "", "", "", "", 1, 1, 0, 0),
           score |-> FInt(0)]

Unmatched == [matched |-> FALSE, raised |-> FALSE,
              external_trade |-> NoBest.trade, score |-> FInt(0)]

\* engine.py:113-123: the best candidate is returned only if it validates
ValidatedBest(internal, best, config) ==
    IF best.found /\ validate_match(internal, best.trade, config)
    THEN [matched |-> TRUE, raised |-> FALSE,
          external_trade |-> best.trade, score |-> best.score]
    ELSE Unmatched

find_best_match(internal, external, matched_ids, config) ==
    IF get_candidates_raises(internal, external, matched_ids)
    THEN [Unmatched EXCEPT !.raised = TRUE]
    ELSE ValidatedBest(internal,
                       BestOf(internal,
                              get_candidates(internal, external, matched_ids,
                                             config),
                              1, NoBest, config),
                       config)

-----------------------------------------------------------------------------
(* match_trades *)

Match(internal, external, score) ==
    [internal_trade |-> internal, external_trade |-> external,
     match_score |-> score, match_method |-> "ALGORITHMIC"]

\* MissingBreak that reports every trade as missing on the internal side
MissingBreak_Internal(trade, break_type) ==
    [trade |-> trade, break_type |-> "MISSING_INTERNAL_TRADE",
     severity |-> "HIGH"]

\* engine.py:56-60 and 65-69
MissingBreak(trade, break_type) ==
    [trade |-> trade, break_type |-> break_type, severity |-> "HIGH"]

EngineStart ==
    [matches |-> <<>>, breaks |-> <<>>, matched_ids |-> {}, raised |-> FALSE]

\* Record without line 54: the chosen external id is not remembered
Record_NoAdd(st, internal, res) ==
    IF res.raised THEN [st EXCEPT !.raised = TRUE]
    ELSE IF res.matched
    THEN [st EXCEPT
            !.matches = Append(@, Match(internal, res.external_trade,
                                        res.score))]
    ELSE [st EXCEPT
            !.breaks = Append(@, MissingBreak(internal,
                                              "MISSING_EXTERNAL_TRADE"))]

\* engine.py:47-60: what one internal trade's result adds to the output
Record(st, internal, res) ==
    IF res.raised THEN [st EXCEPT !.raised = TRUE]
    ELSE IF res.matched
    THEN [st EXCEPT
            !.matches = Append(@, Match(internal, res.external_trade,
                                        res.score)),
            !.matched_ids = @ \cup {res.external_trade.id}]
    ELSE [st EXCEPT
            !.breaks = Append(@, MissingBreak(internal,
                                              "MISSING_EXTERNAL_TRADE"))]

\* one iteration of the loop over the internal trades
MatchOne(st, internal, external, config) ==
    Record(st, internal,
           find_best_match(internal, external, st.matched_ids, config))

\* ScanOne without the test of line 64
ScanOne_All(st, external_trade) ==
    IF ~HasId(external_trade) THEN [st EXCEPT !.raised = TRUE]
    ELSE [st EXCEPT
            !.breaks = Append(@, MissingBreak(external_trade,
                                              "MISSING_INTERNAL_TRADE"))]

\* one iteration of the loop over the external trades
ScanOne(st, external_trade) ==
    IF ~HasId(external_trade) THEN [st EXCEPT !.raised = TRUE]
    ELSE IF external_trade.id \notin st.matched_ids
    THEN [st EXCEPT
            !.breaks = Append(@, MissingBreak(external_trade,
                                              "MISSING_INTERNAL_TRADE"))]
    ELSE st

RECURSIVE MatchLoop(_, _, _, _, _)
MatchLoop(st, internal_trades, k, external, config) ==
    IF st.raised \/ k > Len(internal_trades) THEN st
    ELSE MatchLoop(MatchOne(st, internal_trades[k], external, config),
                   internal_trades, k + 1, external, config)

RECURSIVE ScanLoop(_, _, _)
ScanLoop(st, external, k) ==
    IF st.raised \/ k > Len(external) THEN st
    ELSE ScanLoop(ScanOne(st, external[k]), external, k + 1)

\* the whole call: [matches, breaks, matched_ids, raised]
match_trades(internal_trades, external_trades, config) ==
    ScanLoop(MatchLoop(EngineStart, internal_trades, 1, external_trades, config),
             external_trades, 1)

-----------------------------------------------------------------------------
(* The engine on its own: match_trades on bounded argument lists *)

MaxInternal == 2
MaxExternal == 2

I1 == Trade(1, "T1", "INTERNAL", "ABC", "JPM", 100, 1000, 540, 2)
I2 == Trade(2, "T2", "INTERNAL", "XYZ", "GS", 50, 2000, 600, 2)
I3 == Trade(3, "T3", "INTERNAL", "ABC", "JPM", -100, 1000, 540, 2)

E1 == Trade(11, "X1", "BROKER_A", "ABC", "JPMORGAN CHASE", 100, 1000, 545, 2)
E2 == Trade(12, "X2", "BROKER_A", "XYZ", "GOLDMAN SACHS", 50, 2001, 603, 2)
E3 == Trade(13, "X3", "BROKER_B", "ABC", "JPM", 100, 1200, 540, 2)
E4 == Trade(14, "X4", "BROKER_B", "ABC", "JPM", 100, 1000, 540, 3)
E5 == Trade(15, "T1", "BROKER_B", "XYZ", "JPM", 100, 1000, 540, 2)
E6 == Trade(16, "X6", "BROKER_A", "ABC", "JPM", 101, 1000, 540, 2)
E7 == Trade(17, "X7", "BROKER_A", "ABC", "JPM", 100, 1000, 540, 2)
E8 == Trade(18, "X8", "BROKER_B", "ABC", "JPM", 100, 1010, 540, 2)

\* a pair of penny prices: 0.01 and 0.02, 200000 units
I9 == Trade(9, "T9", "INTERNAL", "PNY", "JPM", 200000, 1, 540, 2)
E9 == Trade(19, "X9", "BROKER_A", "PNY", "JPM", 200000, 2, 540, 2)

InternalPool == {I1, I2, I3}
ExternalPool == {E1, E2, E3, E4, E5, E6, E7, E8}

\* the default configuration and one with a lower min_match_score
Configs == {DefaultMatchConfig, MatchConfig(Frac(60, 100))}

SeqsUpTo(S, n) == UNION {[1..k -> S] : k \in 0..n}

-----------------------------------------------------------------------------
(* The run endpoint and the orchestrator: requests, feeds, rows *)

Requests == {"r1", "r2"}

TradeDates == {"d1", "d2"}

ExternalSources == {"BROKER_A", "BROKER_B"}

\* a NULL column, an unset counter
None == -1

\* the record of a trade as the adapters return it: normalize_trade and
\* extract_trades build the dictionary without an 'id' key
Adapted(t) == [t EXCEPT !.id = NoId]

\* what the internal database and the two broker files hold for a trade
\* date, and the 'matching' section of the orchestrator's config
Scenario(internal, broker_a, broker_b, config) ==
    [INTERNAL |-> internal, BROKER_A |-> broker_a, BROKER_B |-> broker_b,
     config |-> config]

NothingToday == Scenario(<<>>, <<>>, <<>>, DefaultMatchConfig)

\* The first three hold records as the adapters of this repository return
\* them.  The last three hold records that carry the 'id' key that
\* _match_trades and the engine read; Trade(**trade_data) then stores the row
\* under that key.
Scenarios ==
    {NothingToday,
     Scenario(<<Adapted(I1)>>, <<>>, <<>>, DefaultMatchConfig),
     Scenario(<<Adapted(I1)>>, <<Adapted(E7)>>, <<Adapted(E4)>>,
              DefaultMatchConfig),
     Scenario(<<I1, I2>>, <<E1, E2>>, <<>>, MatchConfig(Frac(60, 100))),
     Scenario(<<I1>>, <<E7>>, <<E4>>, MatchConfig(Frac(60, 100))),
     Scenario(<<I9>>, <<E9>>, <<>>, MatchConfig(Frac(60, 100)))}

\* extract_trades / parse for one source: the scenario is that of trade date
\* "d1", nothing was traded on the other date
FeedOf(trade_date, source) ==
    IF trade_date = "d1" THEN feeds[source] ELSE <<>>

\* ReconciliationRun(trade_date=trade_date, status='RUNNING')
RunRow(id, trade_date) ==
    [id |-> id, trade_date |-> trade_date, status |-> "RUNNING",
     total_internal_trades |-> None, total_external_trades |-> None,
     matched_trades |-> None, new_breaks |-> None,
     auto_resolved_breaks |-> None, error_message |-> ""]

\* the primary key the database gives the n-th row a session inserts without
\* one; no code reads it back into the dictionaries
AutoId(r, n) == (IF r = "r1" THEN 100 ELSE 200) + n

RowId(r, t, n) == IF HasId(t) THEN t.id ELSE AutoId(r, n)

\* Trade(**trade_data); added_by is the request that inserted the row (not a
\* column)
TradeRow(r, t, n) ==
    [id |-> RowId(r, t, n), trade_id |-> t.trade_id, source |-> t.source,
     status |-> "unmatched", matched_trade_id |-> None, added_by |-> r]

\* Break(trade_id=..., matched_trade_id=..., break_type=..., severity=...)
BreakRow(r, n, trade_id, matched_trade_id, b) ==
    [id |-> AutoId(r, n), trade_id |-> trade_id,
     matched_trade_id |-> matched_trade_id, break_type |-> b.break_type,
     severity |-> b.severity, status |-> "OPEN", resolved_at |-> None,
     resolution_notes |-> "", added_by |-> r]

\* the locals of run_daily_reconciliation and of the steps it calls
EmptyLocal ==
    [seen |-> {}, internal_trades |-> <<>>, external_trades |-> <<>>,
     futures |-> {}, failed_feeds |-> {}, added |-> 0, matches |-> <<>>,
     unmatched |-> <<>>, k |-> 1, breaks |-> <<>>, categorized |-> <<>>,
     patterns_detected |-> FALSE, cases |-> <<>>, cancel_signal |-> FALSE,
     error |-> ""]

\* a session: rows added or changed and not yet committed; "broken" once a
\* flush has failed and nothing can be committed any more
NewSession == [trades |-> {}, breaks |-> {}, state |-> "ok"]

\* no break has been handed to the classifier
ResolverIdle ==
    /\ rInput = <<>>
    /\ rBreaks = <<>>
    /\ rResults = <<>>
    /\ rNow = 1
    /\ rPc = "input"

NoRuns ==
    /\ pc = [r \in Requests |-> "request"]
    /\ loc = [r \in Requests |-> EmptyLocal]
    /\ sess = [r \in Requests |-> NewSession]
    /\ dbRuns = {}
    /\ dbTrades = {}
    /\ dbBreaks = {}

InitEngine ==
    /\ eInternal \in SeqsUpTo(InternalPool, MaxInternal)
    /\ eExternal \in SeqsUpTo(ExternalPool, MaxExternal)
    /\ eConfig \in Configs
    /\ eIdx = 1
    /\ eMatches = <<>>
    /\ eBreaks = <<>>
    /\ eMatchedIds = {}
    /\ ePc = "running"
    /\ req = [r \in Requests |-> [trade_date |-> "d1", force_rerun |-> FALSE]]
    /\ feeds = NothingToday
    /\ NoRuns
    /\ ResolverIdle

EngineState ==
    [matches |-> eMatches, breaks |-> eBreaks, matched_ids |-> eMatchedIds,
     raised |-> FALSE]

EngineApply(st) ==
    /\ eMatches' = st.matches
    /\ eBreaks' = st.breaks
    /\ eMatchedIds' = st.matched_ids
    /\ ePc' = IF st.raised THEN "raised" ELSE "running"
    /\ eIdx' = eIdx + 1
    /\ UNCHANGED <<eInternal, eExternal, eConfig>>
    /\ UNCHANGED <<runVars, resolverVars>>

\* engine.py:40-60, one internal trade
EngineMatchOne ==
    /\ ePc = "running"
    /\ eIdx <= Len(eInternal)
    /\ EngineApply(MatchOne(EngineState, eInternal[eIdx], eExternal, eConfig))

\* engine.py:63-69, one external trade
EngineScanOne ==
    /\ ePc = "running"
    /\ eIdx > Len(eInternal)
    /\ eIdx <= Len(eInternal) + Len(eExternal)
    /\ EngineApply(ScanOne(EngineState, eExternal[eIdx - Len(eInternal)]))

\* engine.py:71
EngineReturn ==
    /\ ePc = "running"
    /\ eIdx > Len(eInternal) + Len(eExternal)
    /\ ePc' = "done"
    /\ UNCHANGED <<eInternal, eExternal, eConfig, eIdx, eMatches, eBreaks,
                   eMatchedIds>>
    /\ UNCHANGED <<runVars, resolverVars>>

NextEngine == EngineMatchOne \/ EngineScanOne \/ EngineReturn

SpecEngine == InitEngine /\ [][NextEngine]_vars

-----------------------------------------------------------------------------
(* Properties of match_trades *)

Range(seq) == {seq[k] : k \in 1..Len(seq)}

Occurrences(seq, x) == Cardinality({k \in 1..Len(seq) : seq[k] = x})

\* the internal trades the first loop has gone through
ProcessedInternal ==
    SubSeq(eInternal, 1, IF eIdx - 1 < Len(eInternal) THEN eIdx - 1
                         ELSE Len(eInternal))

BreaksOfType(breaks, break_type) ==
    SelectSeq(breaks, LAMBDA b : b.break_type = break_type)

NoDuplicateIds(trades) ==
    \A j, k \in 1..Len(trades) : j # k => trades[j].id # trades[k].id

PairIds(matches) ==
    {<<matches[k].internal_trade.id, matches[k].external_trade.id>> :
        k \in 1..Len(matches)}

\* C1: at every point of a match_trades call, no two matches hold the same
\* external trade id, an internal trade is in no more matches than it has
\* entries in the input, and the matched-id set is exactly the ids chosen so
\* far, none of which is a candidate for the internal trade coming next
C1_AtMostOneMatch ==
    /\ \A j, k \in 1..Len(eMatches) :
          j # k => eMatches[j].external_trade.id # eMatches[k].external_trade.id
    /\ \A t \in Range(eInternal) :
          Cardinality({k \in 1..Len(eMatches) : eMatches[k].internal_trade = t})
            <= Occurrences(ProcessedInternal, t)
    /\ eMatchedIds = {eMatches[k].external_trade.id : k \in 1..Len(eMatches)}
    /\ (ePc = "running" /\ eIdx <= Len(eInternal)) =>
          \A c \in Range(get_candidates(eInternal[eIdx], eExternal,
                                        eMatchedIds, eConfig)) :
              c.id \notin eMatchedIds

\* a later internal trade whose best match, had nothing been matched before
\* it, is the external trade an earlier internal trade took
C1_Witness ==
    /\ ePc = "done"
    /\ Len(eInternal) = 2
    /\ Len(eMatches) = 1
    /\ eMatches[1].internal_trade = eInternal[1]
    /\ LET alone == find_best_match(eInternal[2], eExternal, {}, eConfig)
       IN  alone.matched /\ alone.external_trade.id \in eMatchedIds

\* |a - b| <= tolerance * |a|
WithinPct(a, b, tolerance) ==
    FLeq(Frac(Abs(a - b), Abs(a)), tolerance)

HardGates(m, config) ==
    /\ FLeq(config.min_match_score, m.match_score)
    /\ m.internal_trade.instrument_id = m.external_trade.instrument_id
    /\ \/ WithinPct(m.internal_trade.price, m.external_trade.price,
                    config.price_tolerance_percent)
       \/ Abs(m.internal_trade.price - m.external_trade.price)
            <= config.price_tolerance_absolute
    /\ WithinPct(m.internal_trade.quantity, m.external_trade.quantity,
                 config.quantity_tolerance_percent)

\* C2: every returned match passes all hard gates (score, instrument, price
\* within percent or absolute tolerance, quantity within percent tolerance of
\* the internal quantity)
C2_AllGates ==
    \A k \in 1..Len(eMatches) : HardGates(eMatches[k], eConfig)

\* C3: without duplicate ids in either input list, the finished call accounts
\* for every input trade once: 2 * matches + missing-external breaks +
\* missing-internal breaks = |internal| + |external|
C3_Accounting ==
    (ePc = "done" /\ NoDuplicateIds(eInternal) /\ NoDuplicateIds(eExternal)) =>
        2 * Len(eMatches)
          + Len(BreaksOfType(eBreaks, "MISSING_EXTERNAL_TRADE"))
          + Len(BreaksOfType(eBreaks, "MISSING_INTERNAL_TRADE"))
        = Len(eInternal) + Len(eExternal)

\* a finished call with a match and a break of either missing side
C3_Witness ==
    /\ ePc = "done"
    /\ NoDuplicateIds(eInternal) /\ NoDuplicateIds(eExternal)
    /\ Len(eMatches) >= 1
    /\ Len(BreaksOfType(eBreaks, "MISSING_EXTERNAL_TRADE")) >= 1
    /\ Len(BreaksOfType(eBreaks, "MISSING_INTERNAL_TRADE")) >= 1

\* C4: under the default configuration the inputs of scenario 1 end with the
\* pairs I1-E1 and I2-E2 and without a missing-side break
C4_Scenario1 ==
    (/\ ePc = "done"
     /\ eConfig = DefaultMatchConfig
     /\ eInternal = <<I1, I2>>
     /\ eExternal = <<E1, E2>>) =>
        /\ PairIds(eMatches) = {<<I1.id, E1.id>>, <<I2.id, E2.id>>}
        /\ eBreaks = <<>>

\* the external list with the trades of one source first, as _ingest_trades
\* builds it when that feed's task completes first
ByCompletion(external, first) ==
    SelectSeq(external, LAMBDA t : t.source = first)
    \o SelectSeq(external, LAMBDA t : t.source # first)

OtherCompletion(external) ==
    IF external = ByCompletion(external, "BROKER_A")
    THEN ByCompletion(external, "BROKER_B")
    ELSE ByCompletion(external, "BROKER_A")

IsCompletionOrder(external) ==
    \/ external = ByCompletion(external, "BROKER_A")
    \/ external = ByCompletion(external, "BROKER_B")

-----------------------------------------------------------------------------
(* engine.py identify_breaks, analyzer.py categorize_break and AutoResolver *)

PriceBreak(internal, external) ==
    [break_type |-> "PRICE_MISMATCH",
     severity |-> IF FLt(Frac(5, 100), DiffPct(internal.price, external.price))
                  THEN "HIGH" ELSE "MEDIUM",
     expected_value |-> internal.price, actual_value |-> external.price,
     difference |-> external.price - internal.price]

QuantityBreak(internal, external) ==
    [break_type |-> "QUANTITY_MISMATCH",
     severity |-> IF FLt(Frac(1, 100),
                         DiffPct(internal.quantity, external.quantity))
                  THEN "HIGH" ELSE "MEDIUM",
     expected_value |-> internal.quantity, actual_value |-> external.quantity,
     difference |-> external.quantity - internal.quantity]

SettlementBreak(internal, external) ==
    [break_type |-> "SETTLEMENT_DATE_MISMATCH", severity |-> "LOW",
     expected_value |-> internal.settlement_date,
     actual_value |-> external.settlement_date]

identify_breaks(internal, external, config) ==
    (IF FLt(config.price_tolerance_percent,
            DiffPct(internal.price, external.price))
     THEN <<PriceBreak(internal, external)>> ELSE <<>>)
    \o (IF FLt(config.quantity_tolerance_percent,
               DiffPct(internal.quantity, external.quantity))
        THEN <<QuantityBreak(internal, external)>> ELSE <<>>)
    \o (IF internal.settlement_date # external.settlement_date
        THEN <<SettlementBreak(internal, external)>> ELSE <<>>)

IsMismatch(break_type) ==
    break_type \in {"PRICE_MISMATCH", "QUANTITY_MISMATCH",
                    "SETTLEMENT_DATE_MISMATCH", "COUNTERPARTY_MISMATCH",
                    "ACCOUNT_MISMATCH", "CURRENCY_MISMATCH"}

\* abs(difference) < 0.01: a price difference is in cents, a quantity
\* difference in whole units
UnderHundredth(b) ==
    IF b.break_type = "PRICE_MISMATCH" THEN Abs(b.difference) < 1
    ELSE 100 * Abs(b.difference) < 1

\* break_data.get('severity', 'HIGH')
GivenSeverity(break_data) ==
    IF "severity" \in DOMAIN break_data THEN break_data.severity ELSE "HIGH"

is_auto_resolvable(break_data) ==
    IF GivenSeverity(break_data) \in {"CRITICAL", "HIGH"} THEN FALSE
    ELSE IF /\ "root_cause_category" \in DOMAIN break_data
            /\ break_data.root_cause_category
                   \in {"SETTLEMENT_DATE_MISMATCH", "ROUNDING_DIFFERENCE"}
    THEN TRUE
    ELSE /\ IsMismatch(break_data.break_type)
         /\ "difference" \in DOMAIN break_data
         /\ UnderHundredth(break_data)

IsMissing(break_type) ==
    break_type \in {"MISSING_EXTERNAL_TRADE", "MISSING_INTERNAL_TRADE"}

\* break_data.get('trade', {}).get(key, 0)
TradeField(break_data, key) ==
    IF "trade" \in DOMAIN break_data THEN break_data.trade[key] ELSE 0

\* analyzer.py:46-55 and 62-67 on an impact in cents; the quantity branch
\* has no LOW
ImpactBucket(impact, lowest) ==
    IF impact > 10000000 THEN "CRITICAL"
    ELSE IF impact > 1000000 THEN "HIGH"
    ELSE IF lowest = "LOW" /\ impact > 100000 THEN "MEDIUM"
    ELSE lowest

\* analyzer.py:70-78
severity_map(break_type) ==
    CASE break_type = "SETTLEMENT_DATE_MISMATCH" -> "MEDIUM"
      [] break_type = "COUNTERPARTY_MISMATCH" -> "HIGH"
      [] break_type = "ACCOUNT_MISMATCH" -> "HIGH"
      [] break_type = "CURRENCY_MISMATCH" -> "CRITICAL"
      [] OTHER -> "MEDIUM"

determine_severity(break_data) ==
    IF IsMissing(break_data.break_type) THEN "CRITICAL"
    ELSE IF /\ "difference" \in DOMAIN break_data
            /\ break_data.break_type = "PRICE_MISMATCH"
    THEN ImpactBucket(Abs(break_data.difference)
                          * TradeField(break_data, "quantity"), "LOW")
    ELSE IF /\ "difference" \in DOMAIN break_data
            /\ break_data.break_type = "QUANTITY_MISMATCH"
    THEN ImpactBucket(Abs(break_data.difference)
                          * TradeField(break_data, "price"), "MEDIUM")
    ELSE severity_map(break_data.break_type)

\* trade_date is in minutes of the day: trade_time.hour >= 16
identify_root_cause(break_data) ==
    IF break_data.break_type = "MISSING_EXTERNAL_TRADE"
    THEN IF "trade" \in DOMAIN break_data /\ break_data.trade.trade_date >= 16 * 60
         THEN "LATE_BOOKING" ELSE "BROKER_FEED_ISSUE"
    ELSE IF break_data.break_type = "MISSING_INTERNAL_TRADE"
    THEN "INTERNAL_BOOKING_ERROR"
    ELSE IF break_data.break_type = "PRICE_MISMATCH"
    THEN IF FLt(Frac(1, 10),
                Frac(IF "difference" \in DOMAIN break_data
                     THEN Abs(break_data.difference) ELSE 0,
                     IF "expected_value" \in DOMAIN break_data
                     THEN break_data.expected_value ELSE 1))
         THEN "DATA_ENTRY_ERROR" ELSE "ROUNDING_DIFFERENCE"
    ELSE IF break_data.break_type = "QUANTITY_MISMATCH" THEN "PARTIAL_FILL"
    ELSE "UNKNOWN"

get_sla_hours(severity) ==
    CASE severity = "CRITICAL" -> 2
      [] severity = "HIGH" -> 4
      [] severity = "MEDIUM" -> 24
      [] severity = "LOW" -> 48
      [] OTHER -> 24

\* the notional price * quantity is in cents; no break carries 'created_at'
NotionalBonus(notional) ==
    IF notional > 100000000 THEN 200
    ELSE IF notional > 10000000 THEN 100
    ELSE 0

calculate_priority_score(break_data, severity) ==
    (CASE severity = "CRITICAL" -> 1000
       [] severity = "HIGH" -> 500
       [] severity = "MEDIUM" -> 100
       [] severity = "LOW" -> 10
       [] OTHER -> 100)
    + NotionalBonus(TradeField(break_data, "price")
                    * TradeField(break_data, "quantity"))

CategoryKeys ==
    {"severity", "root_cause_category", "auto_resolvable", "sla_hours",
     "priority_score"}

\* analyzer.py:15-28: the break with the five keys of the classification;
\* auto_resolvable is computed on the break as it came in
categorize_break(break_data) ==
    [f \in DOMAIN break_data \cup CategoryKeys |->
        CASE f = "severity" -> determine_severity(break_data)
          [] f = "root_cause_category" -> identify_root_cause(break_data)
          [] f = "auto_resolvable" -> is_auto_resolvable(break_data)
          [] f = "sla_hours" -> get_sla_hours(determine_severity(break_data))
          [] f = "priority_score" ->
                calculate_priority_score(break_data,
                                         determine_severity(break_data))
          [] OTHER -> break_data[f]]

check_counterparty_alias(name1, name2) ==
    \E pair \in {<<"JPMORGAN CHASE", "JPM">>, <<"GOLDMAN SACHS", "GS">>,
                 <<"MORGAN STANLEY", "MS">>} :
        <<name1, name2>> = pair \/ <<name2, name1>> = pair

\* external - internal <= 0.01 on the floats of two prices one cent apart:
\* 20.01 - 20.0 is 0.010000000000001563
FloatCentApart(expected, actual) == <<expected, actual>> # <<2000, 2001>>

\* abs(difference) <= 0.01 of the PENNY_ROUNDING rule
WithinOneCent(b) ==
    \/ Abs(b.difference) < 1
    \/ Abs(b.difference) = 1 /\ FloatCentApart(b.expected_value, b.actual_value)

\* analyzer.py:340-376: action and reason of each rule
Fired(rule_applied, action, reason) ==
    [resolved |-> TRUE, rule_applied |-> rule_applied, action |-> action,
     reason |-> reason]

NotResolved ==
    [resolved |-> FALSE, rule_applied |-> "", action |-> "", reason |-> ""]

\* analyzer.py:340-376: the rules in the order of the list
RuleName(k) ==
    <<"SETTLEMENT_DATE_T_PLUS_ADJUSTMENT", "PENNY_ROUNDING",
      "QUANTITY_ROUNDING", "KNOWN_COUNTERPARTY_MAPPING">>[k]

RuleAction(k) ==
    <<"ACCEPT_EXTERNAL", "ACCEPT_EXTERNAL", "ACCEPT_INTERNAL",
      "UPDATE_MAPPING">>[k]

RuleReason(k) ==
    <<"Settlement date within T+1 tolerance",
      "Price difference within rounding tolerance (1 cent)",
      "Quantity difference negligible (< 0.01 shares)",
      "Counterparty names are known aliases">>[k]

RuleBreakType(k) ==
    <<"SETTLEMENT_DATE_MISMATCH", "PRICE_MISMATCH", "QUANTITY_MISMATCH",
      "COUNTERPARTY_MISMATCH">>[k]

\* the keys the condition reads after the test of the break type
RuleKeys(k) ==
    IF k \in {2, 3} THEN {"difference"} ELSE {"expected_value", "actual_value"}

Outcome(holds) == IF holds THEN "true" ELSE "false"

\* the second operand of each condition
RuleTest(k, b) ==
    CASE k = 1 -> Abs(b.expected_value - b.actual_value) <= 1
      [] k = 2 -> WithinOneCent(b)
      [] k = 3 -> 100 * Abs(b.difference) < 1
      [] k = 4 -> check_counterparty_alias(b.expected_value, b.actual_value)

\* rule['condition'](break_record): "raises" is the KeyError of a key the
\* break does not have
RuleCondition(k, b) ==
    IF b.break_type # RuleBreakType(k) THEN "false"
    ELSE IF ~(RuleKeys(k) \subseteq DOMAIN b) THEN "raises"
    ELSE Outcome(RuleTest(k, b))

\* analyzer.py:393-405: the loop over the rules from the k-th on; an
\* exception of a condition is caught and the loop continues
RECURSIVE ApplyRules(_, _)
ApplyRules(k, b) ==
    IF k > 4 THEN NotResolved
    ELSE IF RuleCondition(k, b) = "true"
    THEN Fired(RuleName(k), RuleAction(k), RuleReason(k))
    ELSE ApplyRules(k + 1, b)

\* attempt_auto_resolve without the first rule of the list
attempt_auto_resolve_Skip(b) == ApplyRules(2, b)

\* analyzer.py:391-407
attempt_auto_resolve(b) == ApplyRules(1, b)

-----------------------------------------------------------------------------
(* The session and the steps of run_daily_reconciliation *)

Ids(rows) == {row.id : row \in rows}

\* the table after a commit of the session's rows
Merged(table, rows) == {row \in table : row.id \notin Ids(rows)} \cup rows

\* an INSERT of a primary key that is already stored fails the flush
Conflict(table, rows) == Ids(table) \cap Ids(rows) # {}

\* the columns of one run row are assigned
UpdateRun(runs, id, changes) ==
    {IF row.id = id
     THEN [f \in DOMAIN row |->
              IF f \in DOMAIN changes THEN changes[f] ELSE row[f]]
     ELSE row : row \in runs}

RunOf(r) == CHOOSE row \in dbRuns : row.id = r

HasRun(r) == \E row \in dbRuns : row.id = r

\* self.db.commit(): the session's rows reach the tables
Commit(r) ==
    /\ dbTrades' = Merged(dbTrades, sess[r].trades)
    /\ dbBreaks' = Merged(dbBreaks, sess[r].breaks)
    /\ sess' = [sess EXCEPT ![r].trades = {}, ![r].breaks = {}]

\* an exception leaves the try block: nothing is committed or rolled back
Raise(r, error, local, session) ==
    /\ pc' = [pc EXCEPT ![r] = "except"]
    /\ loc' = [loc EXCEPT ![r] = [local EXCEPT !.error = error]]
    /\ sess' = [sess EXCEPT ![r] = session]
    /\ UNCHANGED <<dbRuns, dbTrades, dbBreaks>>

\* api_routes.py:131-139: get_by_trade_date returns a run of that date
\* whatever its status
ApiCheck(r) ==
    /\ pc[r] = "request"
    /\ loc' = [loc EXCEPT ![r].seen =
                  {row.status : row \in
                      {x \in dbRuns : x.trade_date = req[r].trade_date}}]
    /\ pc' = [pc EXCEPT ![r] =
                 IF (\E row \in dbRuns : row.trade_date = req[r].trade_date)
                    /\ ~req[r].force_rerun
                 THEN "rejected" ELSE "create"]
    /\ UNCHANGED <<engineVars, resolverVars>>
    /\ UNCHANGED <<req, feeds, sess, dbRuns, dbTrades, dbBreaks>>

\* orchestration.py:45-50
CreateRun(r) ==
    /\ pc[r] = "create"
    /\ dbRuns' = dbRuns \cup {RunRow(r, req[r].trade_date)}
    /\ pc' = [pc EXCEPT ![r] = "ingest_internal"]
    /\ UNCHANGED <<engineVars, resolverVars>>
    /\ UNCHANGED <<req, feeds, loc, sess, dbTrades, dbBreaks>>

NewRows(r, trades_data, added) ==
    {TradeRow(r, trades_data[n], added + n) : n \in 1..Len(trades_data)}

\* orchestration.py:140-151: the internal trades are read, added and committed
IngestInternal(r) ==
    /\ pc[r] = "ingest_internal"
    /\ IF Conflict(dbTrades, NewRows(r, FeedOf(req[r].trade_date, "INTERNAL"), 0))
       THEN Raise(r, "IntegrityError", loc[r],
                  [sess[r] EXCEPT !.state = "broken"])
       ELSE /\ dbTrades' = dbTrades \cup
                    NewRows(r, FeedOf(req[r].trade_date, "INTERNAL"), 0)
            /\ loc' = [loc EXCEPT
                  ![r].internal_trades = FeedOf(req[r].trade_date, "INTERNAL"),
                  ![r].added = Len(FeedOf(req[r].trade_date, "INTERNAL")),
                  ![r].futures = ExternalSources]
            /\ pc' = [pc EXCEPT ![r] = "ingest_external"]
            /\ UNCHANGED <<sess, dbRuns, dbBreaks>>
    /\ UNCHANGED <<engineVars, resolverVars>>
    /\ UNCHANGED <<req, feeds>>

\* orchestration.py:143: extract_trades raises
InternalFeedFails(r) ==
    /\ pc[r] = "ingest_internal"
    /\ Raise(r, "FeedIOError", loc[r], sess[r])
    /\ UNCHANGED <<engineVars, resolverVars>>
    /\ UNCHANGED <<req, feeds>>

\* orchestration.py:178-186: the task of one source completes with its trades
FeedCompletes(r, source) ==
    /\ pc[r] = "ingest_external"
    /\ source \in loc[r].futures
    /\ sess' = [sess EXCEPT ![r].trades =
                   @ \cup NewRows(r, FeedOf(req[r].trade_date, source),
                                  loc[r].added)]
    /\ loc' = [loc EXCEPT
          ![r].external_trades = @ \o FeedOf(req[r].trade_date, source),
          ![r].added = @ + Len(FeedOf(req[r].trade_date, source)),
          ![r].futures = @ \ {source}]
    /\ UNCHANGED <<engineVars, resolverVars>>
    /\ UNCHANGED <<req, feeds, pc, dbRuns, dbTrades, dbBreaks>>

\* orchestration.py:187-188: the task of one source raised; it is logged
FeedFails(r, source) ==
    /\ pc[r] = "ingest_external"
    /\ source \in loc[r].futures
    /\ loc' = [loc EXCEPT ![r].futures = @ \ {source},
                          ![r].failed_feeds = @ \cup {source}]
    /\ UNCHANGED <<engineVars, resolverVars>>
    /\ UNCHANGED <<req, feeds, pc, sess, dbRuns, dbTrades, dbBreaks>>

\* orchestration.py:190-192 and 59-61
IngestDone(r) ==
    /\ pc[r] = "ingest_external"
    /\ loc[r].futures = {}
    /\ IF Conflict(dbTrades, sess[r].trades)
       THEN Raise(r, "IntegrityError", loc[r],
                  [NewSession EXCEPT !.state = "broken"])
       ELSE /\ Commit(r)
            /\ dbRuns' = UpdateRun(dbRuns, r,
                  [total_internal_trades |-> Len(loc[r].internal_trades),
                   total_external_trades |-> Len(loc[r].external_trades)])
            /\ pc' = [pc EXCEPT ![r] = "match"]
            /\ UNCHANGED loc
    /\ UNCHANGED <<engineVars, resolverVars>>
    /\ UNCHANGED <<req, feeds>>

\* orchestration.py:197: the engine's result reaches the locals, or its
\* KeyError leaves the step
MatchEngineApply(r, res) ==
    IF res.raised
    THEN Raise(r, "'id'", loc[r], sess[r])
    ELSE /\ loc' = [loc EXCEPT ![r].matches = res.matches,
                               ![r].unmatched = res.breaks,
                               ![r].k = 1]
         /\ pc' = [pc EXCEPT ![r] = "persist"]
         /\ UNCHANGED <<sess, dbRuns, dbTrades, dbBreaks>>

MatchEngine(r) ==
    /\ pc[r] = "match"
    /\ MatchEngineApply(r, match_trades(loc[r].internal_trades,
                                        loc[r].external_trades, feeds.config))
    /\ UNCHANGED <<engineVars, resolverVars>>
    /\ UNCHANGED <<req, feeds>>

\* the rows a query of the session returns: its own changes over the tables
Visible(table, rows) == Merged(table, rows)

\* UpdateSide that writes the row's own id as the reference
UpdateSide_Self(rows, table, id, partner) ==
    {row \in rows : row.id # id} \cup
    {[row EXCEPT !.status = "matched", !.matched_trade_id = id] :
        row \in {x \in Visible(table, rows) : x.id = id}}

\* orchestration.py:205-208 and 211-214: the row is looked up and, if it is
\* found, marked matched with a reference to its partner
UpdateSide(rows, table, id, partner) ==
    {row \in rows : row.id # id} \cup
    {[row EXCEPT !.status = "matched", !.matched_trade_id = partner] :
        row \in {x \in Visible(table, rows) : x.id = id}}

\* orchestration.py:200-214, one pair
UpdatePair(rows, table, match) ==
    UpdateSide(UpdateSide(rows, table, match.internal_trade.id,
                          match.external_trade.id),
               table, match.external_trade.id, match.internal_trade.id)

PersistPair(r) ==
    /\ pc[r] = "persist"
    /\ loc[r].k <= Len(loc[r].matches)
    /\ sess' = [sess EXCEPT ![r].trades =
                   UpdatePair(@, dbTrades, loc[r].matches[loc[r].k])]
    /\ loc' = [loc EXCEPT ![r].k = @ + 1]
    /\ UNCHANGED <<engineVars, resolverVars>>
    /\ UNCHANGED <<req, feeds, pc, dbRuns, dbTrades, dbBreaks>>

\* the session after a query of the loop has raised
StorageOutcomes == {"ok", "broken"}

\* orchestration.py:205 or 211: the query for the internal row, or the query
\* for the external row after the internal row was changed, raises
PersistInterrupted(r) ==
    /\ pc[r] = "persist"
    /\ loc[r].k <= Len(loc[r].matches)
    /\ \E changed \in BOOLEAN, outcome \in StorageOutcomes :
          Raise(r, "StorageError", loc[r],
                [sess[r] EXCEPT
                   !.trades =
                      IF changed
                      THEN UpdateSide(@, dbTrades,
                              loc[r].matches[loc[r].k].internal_trade.id,
                              loc[r].matches[loc[r].k].external_trade.id)
                      ELSE @,
                   !.state = outcome])
    /\ UNCHANGED <<engineVars, resolverVars>>
    /\ UNCHANGED <<req, feeds>>

\* MatchDone without line 67: the counter of matched trades is not written
MatchDone_NoCounter(r) ==
    /\ pc[r] = "persist"
    /\ loc[r].k > Len(loc[r].matches)
    /\ Commit(r)
    /\ pc' = [pc EXCEPT ![r] = "identify"]
    /\ UNCHANGED <<engineVars, resolverVars>>
    /\ UNCHANGED <<req, feeds, loc, dbRuns>>

\* orchestration.py:216 and 67-68
MatchDone(r) ==
    /\ pc[r] = "persist"
    /\ loc[r].k > Len(loc[r].matches)
    /\ Commit(r)
    /\ dbRuns' = UpdateRun(dbRuns, r,
                  [matched_trades |-> Len(loc[r].matches)])
    /\ pc' = [pc EXCEPT ![r] = "identify"]
    /\ UNCHANGED <<engineVars, resolverVars>>
    /\ UNCHANGED <<req, feeds, loc>>

\* orchestration.py:225-241: the breaks of the matched pairs
RECURSIVE PairBreaks(_, _, _)
PairBreaks(matches, k, config) ==
    IF k > Len(matches) THEN <<>>
    ELSE LET found == identify_breaks(matches[k].internal_trade,
                                      matches[k].external_trade, config)
         IN  [n \in 1..Len(found) |->
                 [data |-> found[n],
                  trade_id |-> matches[k].internal_trade.id,
                  matched_trade_id |-> matches[k].external_trade.id]]
             \o PairBreaks(matches, k + 1, config)

\* orchestration.py:244-251: the unmatched trades up to the first one whose
\* dictionary has no 'id'
RECURSIVE UnmatchedBreaks(_, _)
UnmatchedBreaks(unmatched, k) ==
    IF k > Len(unmatched) \/ ~HasId(unmatched[k].trade) THEN <<>>
    ELSE <<[data |-> unmatched[k], trade_id |-> unmatched[k].trade.id,
            matched_trade_id |-> None]>>
         \o UnmatchedBreaks(unmatched, k + 1)

\* BreakRows that stores no reference to the matched trade
BreakRows_NoPartner(r, found) ==
    {BreakRow(r, n, found[n].trade_id, None,
              found[n].data) : n \in 1..Len(found)}

\* orchestration.py:230-253: one row per break
BreakRows(r, found) ==
    {BreakRow(r, n, found[n].trade_id, found[n].matched_trade_id,
              found[n].data) : n \in 1..Len(found)}

\* orchestration.py:220-255 and 74-75
IdentifyBreaksApply(r, found, raised) ==
    IF raised
    THEN Raise(r, "'id'", loc[r], [sess[r] EXCEPT !.breaks = BreakRows(r, found)])
    ELSE /\ dbBreaks' = Merged(dbBreaks, BreakRows(r, found))
         /\ dbTrades' = Merged(dbTrades, sess[r].trades)
         /\ sess' = [sess EXCEPT ![r].trades = {}, ![r].breaks = {}]
         /\ loc' = [loc EXCEPT ![r].breaks =
                       [n \in 1..Len(found) |-> found[n].data]]
         /\ dbRuns' = UpdateRun(dbRuns, r,
                  [new_breaks |-> Len(found)])
         /\ pc' = [pc EXCEPT ![r] = "analyze"]

IdentifyBreaks(r) ==
    /\ pc[r] = "identify"
    /\ IdentifyBreaksApply(r,
          PairBreaks(loc[r].matches, 1, feeds.config)
              \o UnmatchedBreaks(loc[r].unmatched, 1),
          \E k \in 1..Len(loc[r].unmatched) : ~HasId(loc[r].unmatched[k].trade))
    /\ UNCHANGED <<engineVars, resolverVars>>
    /\ UNCHANGED <<req, feeds>>

\* orchestration.py:257-269: every break is categorized, then detect_patterns
\* is called on the categorized list (fewer than 5 breaks: it returns [])
AnalyzeBreaks(r) ==
    /\ pc[r] = "analyze"
    /\ loc' = [loc EXCEPT ![r].categorized =
                  [n \in 1..Len(loc[r].breaks) |->
                      categorize_break(loc[r].breaks[n])],
                          ![r].patterns_detected = TRUE]
    /\ pc' = [pc EXCEPT ![r] = "auto_resolve"]
    /\ UNCHANGED <<engineVars, resolverVars>>
    /\ UNCHANGED <<req, feeds, sess, dbRuns, dbTrades, dbBreaks>>

\* analyzer.py:418-431: a break that a rule resolves; break_record['id'] is
\* read for it and the dictionary has no such key
Resolves(b) == b.auto_resolvable /\ attempt_auto_resolve(b).resolved

\* orchestration.py:271-273, 83-87
AutoResolveBreaks(r) ==
    /\ pc[r] = "auto_resolve"
    /\ IF \E n \in 1..Len(loc[r].categorized) : Resolves(loc[r].categorized[n])
       THEN Raise(r, "'id'", loc[r], sess[r])
       ELSE /\ Commit(r)
            /\ dbRuns' = UpdateRun(dbRuns, r,
                  [auto_resolved_breaks |-> 0])
            /\ pc' = [pc EXCEPT ![r] = "cases"]
            /\ UNCHANGED loc
    /\ UNCHANGED <<engineVars, resolverVars>>
    /\ UNCHANGED <<req, feeds>>

\* workflow.py:51-75: the case of a break
create_break_case(break_data) ==
    [break_id |-> break_data.id, status |-> "ASSIGNED",
     priority_score |-> break_data.priority_score]

\* orchestration.py:282-286: break_data['id'] is read for every break, and a
\* case is created for the ones that no resolution names
RECURSIVE WorkflowCases(_, _, _, _)
WorkflowCases(breaks, k, auto_resolved_ids, cases) ==
    IF k > Len(breaks) THEN [cases |-> cases, raised |-> FALSE]
    ELSE IF "id" \notin DOMAIN breaks[k] THEN [cases |-> cases, raised |-> TRUE]
    ELSE WorkflowCases(breaks, k + 1, auto_resolved_ids,
            IF breaks[k].id \in auto_resolved_ids THEN cases
            ELSE Append(cases, create_break_case(breaks[k])))

CreateWorkflowCasesApply(r, res) ==
    IF res.raised
    THEN Raise(r, "'id'", loc[r], sess[r])
    ELSE /\ loc' = [loc EXCEPT ![r].cases = res.cases]
         /\ pc' = [pc EXCEPT ![r] = "report"]
         /\ UNCHANGED <<sess, dbRuns, dbTrades, dbBreaks>>

\* orchestration.py:275-288 and 90: no break was resolved when this step is
\* reached
CreateWorkflowCases(r) ==
    /\ pc[r] = "cases"
    /\ CreateWorkflowCasesApply(r, WorkflowCases(loc[r].categorized, 1, {}, <<>>))
    /\ UNCHANGED <<engineVars, resolverVars>>
    /\ UNCHANGED <<req, feeds>>

\* orchestration.py:97-121 and analyzer.py:271-300: the report of a list of
\* breaks that is not empty reads the column 'created_at', which no
\* dictionary has
Complete(r) ==
    /\ pc[r] = "report"
    /\ IF loc[r].categorized # <<>>
       THEN Raise(r, "'created_at'", loc[r], sess[r])
       ELSE /\ Commit(r)
            /\ dbRuns' = UpdateRun(dbRuns, r,
                  [status |-> "COMPLETED"])
            /\ pc' = [pc EXCEPT ![r] = "returned"]
            /\ UNCHANGED loc
    /\ UNCHANGED <<engineVars, resolverVars>>
    /\ UNCHANGED <<req, feeds>>

\* HandleException without line 126: the message is not stored
HandleException_NoMessage(r) ==
    /\ pc[r] = "except"
    /\ IF sess[r].state = "ok"
       THEN /\ Commit(r)
            /\ dbRuns' = UpdateRun(dbRuns, r,
                  [status |-> "FAILED"])
            /\ pc' = [pc EXCEPT ![r] = "returned_failed"]
       ELSE /\ pc' = [pc EXCEPT ![r] = "raised"]
            /\ sess' = [sess EXCEPT ![r] = NewSession]
            /\ UNCHANGED <<dbRuns, dbTrades, dbBreaks>>
    /\ UNCHANGED <<engineVars, resolverVars>>
    /\ UNCHANGED <<req, feeds, loc>>

\* orchestration.py:123-132: the run is marked FAILED and the session is
\* committed with whatever it holds; the result is returned, the exception
\* is not raised again.  On a session that cannot commit, the commit raises
\* and the run row stays as it was.
HandleException(r) ==
    /\ pc[r] = "except"
    /\ IF sess[r].state = "ok"
       THEN /\ Commit(r)
            /\ dbRuns' = UpdateRun(dbRuns, r,
                  [status |-> "FAILED",
                   error_message |-> loc[r].error])
            /\ pc' = [pc EXCEPT ![r] = "returned_failed"]
       ELSE /\ pc' = [pc EXCEPT ![r] = "raised"]
            /\ sess' = [sess EXCEPT ![r] = NewSession]
            /\ UNCHANGED <<dbRuns, dbTrades, dbBreaks>>
    /\ UNCHANGED <<engineVars, resolverVars>>
    /\ UNCHANGED <<req, feeds, loc>>

Init ==
    /\ eInternal = <<>>
    /\ eExternal = <<>>
    /\ eConfig = DefaultMatchConfig
    /\ eIdx = 1
    /\ eMatches = <<>>
    /\ eBreaks = <<>>
    /\ eMatchedIds = {}
    /\ ePc = "done"
    /\ req \in [Requests -> [trade_date : TradeDates, force_rerun : BOOLEAN]]
    /\ req["r1"].trade_date = "d1"
    /\ feeds \in Scenarios
    /\ NoRuns
    /\ ResolverIdle

Next ==
    \E r \in Requests :
        \/ ApiCheck(r)
        \/ CreateRun(r)
        \/ IngestInternal(r)
        \/ InternalFeedFails(r)
        \/ \E source \in ExternalSources : FeedCompletes(r, source)
        \/ \E source \in ExternalSources : FeedFails(r, source)
        \/ IngestDone(r)
        \/ MatchEngine(r)
        \/ PersistPair(r)
        \/ PersistInterrupted(r)
        \/ MatchDone(r)
        \/ IdentifyBreaks(r)
        \/ AnalyzeBreaks(r)
        \/ AutoResolveBreaks(r)
        \/ CreateWorkflowCases(r)
        \/ Complete(r)
        \/ HandleException(r)

Spec == Init /\ [][Next]_vars

-----------------------------------------------------------------------------
(* The classifier, the auto-resolver and the resolve endpoint on their own *)

MaxBreaks == 2
MaxBatches == 2
MaxClock == 3

\* the dictionary with one more key
WithKey(b, key, value) ==
    [f \in DOMAIN b \cup {key} |-> IF f = key THEN value ELSE b[f]]

\* a break of a type that identify_breaks does not produce, in the shape of
\* the ones it does
CounterpartyBreak(severity, expected_value, actual_value) ==
    [break_type |-> "COUNTERPARTY_MISMATCH", severity |-> severity,
     expected_value |-> expected_value, actual_value |-> actual_value]

\* a break, the trade it is about and the trade it was matched with
Item(data, about, matched_trade_id) ==
    [data |-> data, about |-> about, matched_trade_id |-> matched_trade_id]

\* breaks as identify_breaks and match_trades build them (the first three),
\* and breaks a caller of the classifier can build
BreakPool ==
    <<Item(SettlementBreak(I1, E4), I1, E4.id),
      Item(MissingBreak(I1, "MISSING_EXTERNAL_TRADE"), I1, None),
      Item(PriceBreak(I9, E9), I9, E9.id),
      Item(CounterpartyBreak("LOW", "JPMORGAN CHASE", "JPM"), I1, E1.id),
      Item(WithKey(CounterpartyBreak("MEDIUM", "JPM", "JPMORGAN CHASE"),
                   "difference", 0), I1, E1.id),
      Item(WithKey(QuantityBreak(I1, E6), "trade", I1), I1, E6.id),
      Item(WithKey(SettlementBreak(I1, E4), "difference", 0), I1, E4.id),
      Item([break_type |-> "SETTLEMENT_DATE_MISMATCH", severity |-> "LOW",
            difference |-> 0], I1, E4.id),
      Item(WithKey(CounterpartyBreak("LOW", "JPM", "GS"), "difference", 0),
           I1, E1.id)>>

\* the n-th break of the list and the row stored for it
BreakId(n) == AutoId("r1", n)

InputOf(picks) ==
    [n \in 1..Len(picks) |->
        [BreakPool[picks[n]] EXCEPT
            !.data = WithKey(@, "id", BreakId(n))]]

RowsOf(input) ==
    {BreakRow("r1", n, input[n].about.id, input[n].matched_trade_id,
              input[n].data) : n \in 1..Len(input)}

\* UpdateBreakStatus that leaves resolved_at alone
update_break_status_NoTime(rows, break_id, status, resolution, now) ==
    {IF row.id = break_id
     THEN [row EXCEPT !.status = status,
                      !.resolution_notes = resolution.reason]
     ELSE row : row \in rows}

\* analyzer.py:439-449: the row, if there is one, gets the status, the time
\* and the rule's reason as note, and is committed
update_break_status(rows, break_id, status, resolution, now) ==
    {IF row.id = break_id
     THEN [row EXCEPT !.status = status, !.resolved_at = now,
                      !.resolution_notes = resolution.reason]
     ELSE row : row \in rows}

BatchStart(rows, breaks) ==
    [rows |-> rows, total_breaks |-> Len(breaks), auto_resolved |-> 0,
     failed_resolution |-> 0, resolutions |-> <<>>, raised |-> FALSE]

\* analyzer.py:422-435: the outcome of one attempt
ResolveOne(st, b, resolution, now) ==
    IF ~resolution.resolved
    THEN [st EXCEPT !.failed_resolution = @ + 1]
    ELSE IF "id" \notin DOMAIN b THEN [st EXCEPT !.raised = TRUE]
    ELSE [st EXCEPT
            !.rows = update_break_status(@, b.id, "AUTO_RESOLVED",
                                         resolution, now),
            !.auto_resolved = @ + 1,
            !.resolutions = Append(@, [break_id |-> b.id,
                                       rule_applied |-> resolution.rule_applied,
                                       action |-> resolution.action,
                                       timestamp |-> now])]

\* analyzer.py:418-435: one break of the list
BatchOne(st, b, now) ==
    IF ~b.auto_resolvable THEN st
    ELSE ResolveOne(st, b, attempt_auto_resolve(b), now)

RECURSIVE BatchLoop(_, _, _, _)
BatchLoop(st, breaks, k, now) ==
    IF st.raised \/ k > Len(breaks) THEN st
    ELSE BatchLoop(BatchOne(st, breaks[k], now), breaks, k + 1, now)

\* analyzer.py:409-437
batch_auto_resolve(breaks, rows, now) ==
    BatchLoop(BatchStart(rows, breaks), breaks, 1, now)

InitResolver ==
    /\ eInternal = <<>>
    /\ eExternal = <<>>
    /\ eConfig = DefaultMatchConfig
    /\ eIdx = 1
    /\ eMatches = <<>>
    /\ eBreaks = <<>>
    /\ eMatchedIds = {}
    /\ ePc = "done"
    /\ req = [r \in Requests |-> [trade_date |-> "d1", force_rerun |-> FALSE]]
    /\ feeds = NothingToday
    /\ pc = [r \in Requests |-> "request"]
    /\ loc = [r \in Requests |-> EmptyLocal]
    /\ sess = [r \in Requests |-> NewSession]
    /\ dbRuns = {}
    /\ dbTrades = {}
    /\ \E picks \in SeqsUpTo(1..Len(BreakPool), MaxBreaks) :
          /\ rInput = InputOf(picks)
          /\ dbBreaks = RowsOf(InputOf(picks))
    /\ rBreaks = <<>>
    /\ rResults = <<>>
    /\ rNow = 1
    /\ rPc = "input"

ResolverFrame ==
    UNCHANGED <<engineVars, req, feeds, pc, loc, sess, dbRuns, dbTrades>>

\* orchestration.py:257-265: every break is categorized
ResolverCategorize ==
    /\ rPc = "input"
    /\ rBreaks' = [n \in 1..Len(rInput) |-> categorize_break(rInput[n].data)]
    /\ rPc' = "classified"
    /\ UNCHANGED <<rInput, rResults, rNow, dbBreaks>>
    /\ ResolverFrame

ResolverBatchApply(res) ==
    /\ dbBreaks' = res.rows
    /\ rResults' = Append(rResults, [res EXCEPT !.rows = {}])
    /\ rPc' = IF res.raised THEN "raised" ELSE rPc
    /\ UNCHANGED <<rInput, rBreaks, rNow>>
    /\ ResolverFrame

\* one call of batch_auto_resolve on the categorized list
ResolverBatch ==
    /\ rPc = "classified"
    /\ Len(rResults) < MaxBatches
    /\ ResolverBatchApply(batch_auto_resolve(rBreaks, dbBreaks, rNow))

\* api_routes.py:337-360: a break that is not RESOLVED is resolved by hand
ResolverManualResolve(break_id) ==
    /\ \E row \in dbBreaks : row.id = break_id /\ row.status # "RESOLVED"
    /\ dbBreaks' = {IF row.id = break_id
                    THEN [row EXCEPT !.status = "RESOLVED",
                                     !.resolved_at = rNow,
                                     !.resolution_notes = "MANUAL"]
                    ELSE row : row \in dbBreaks}
    /\ UNCHANGED <<rInput, rBreaks, rResults, rNow, rPc>>
    /\ ResolverFrame

\* time passes
ResolverTick ==
    /\ rNow < MaxClock
    /\ rNow' = rNow + 1
    /\ UNCHANGED <<rInput, rBreaks, rResults, rPc, dbBreaks>>
    /\ ResolverFrame

NextResolver ==
    \/ ResolverCategorize
    \/ ResolverBatch
    \/ \E n \in 1..MaxBreaks : ResolverManualResolve(BreakId(n))
    \/ ResolverTick

SpecResolver == InitResolver /\ [][NextResolver]_vars


-----------------------------------------------------------------------------
(* Properties of the run *)

Terminal == {"rejected", "returned", "returned_failed", "raised"}

\* the match step of the run has returned: its counter is stored
MatchStepDone(r) == HasRun(r) /\ RunOf(r).matched_trades # None

\* the row with this id is stored as matched with a reference to partner
StoredSide(id, partner) ==
    \E row \in dbTrades :
        /\ row.id = id
        /\ row.status = "matched"
        /\ row.matched_trade_id = partner

PairStored(match) ==
    \E i \in dbTrades, e \in dbTrades :
        /\ i.id = match.internal_trade.id
        /\ e.id = match.external_trade.id
        /\ i.source # e.source
        /\ i.status = "matched" /\ e.status = "matched"
        /\ i.matched_trade_id = e.id /\ e.matched_trade_id = i.id

IsPairOf(r, a, b) ==
    \E k \in 1..Len(loc[r].matches) :
        {a, b} = {loc[r].matches[k].internal_trade.id,
                  loc[r].matches[k].external_trade.id}

HasPartner(r, t) ==
    \E p \in dbTrades :
        /\ t.matched_trade_id = p.id
        /\ p.matched_trade_id = t.id
        /\ p.status = "matched"
        /\ p.source # t.source
        /\ IsPairOf(r, t.id, p.id)

\* C5: once the match step of a run has returned, every pair it matched is
\* stored with two different sources, both rows matched and referring to
\* each other, and no row the run stored is matched without such a partner
C5_PairsStored ==
    \A r \in Requests :
        MatchStepDone(r) =>
            /\ \A k \in 1..Len(loc[r].matches) : PairStored(loc[r].matches[k])
            /\ \A t \in dbTrades :
                  (t.added_by = r /\ t.status = "matched") => HasPartner(r, t)

C5_Witness ==
    \E r \in Requests :
        /\ MatchStepDone(r)
        /\ Len(loc[r].matches) = 2
        /\ \A k \in 1..2 : PairStored(loc[r].matches[k])

RunsOfDate(d) == {row \in dbRuns : row.trade_date = d}

\* C7: a request is rejected exactly when it did not force a rerun and a run
\* of its date that has not failed existed when it was checked; and when no
\* request forces a rerun, at most one run that has not failed exists per
\* trade date
C7_Rejection ==
    /\ \A r \in Requests :
          pc[r] # "request" =>
              (pc[r] = "rejected"
               <=> (~req[r].force_rerun /\ loc[r].seen \ {"FAILED"} # {}))
    /\ (\A r \in Requests : ~req[r].force_rerun) =>
          \A d \in TradeDates :
              Cardinality({row \in RunsOfDate(d) : row.status # "FAILED"}) <= 1

C9_FeedFailures ==
    \A r \in Requests :
        /\ (/\ pc[r] \in Terminal
            /\ Cardinality(loc[r].failed_feeds) = 1
            /\ loc[r].error \notin {"StorageError", "IntegrityError"})
           => RunOf(r).status = "COMPLETED"
        /\ (pc[r] \in Terminal /\ loc[r].error = "FeedIOError")
           => /\ RunOf(r).status = "FAILED"
              /\ RunOf(r).matched_trades = None
              /\ loc[r].matches = <<>>



\* the trade row a break refers to is stored as matched
RefersToMatched(id) ==
    /\ id # None
    /\ \E t \in dbTrades : t.id = id /\ t.status = "matched"

PersistedBreaks == dbBreaks \cup UNION {sess[r].breaks : r \in Requests}

\* C14: every break a run persisted has no matched-trade reference when its
\* type is MISSING_EXTERNAL_TRADE or MISSING_INTERNAL_TRADE, and has both
\* references, each to a trade stored as matched, when its type is a mismatch
C14_BreakReferences ==
    \A row \in PersistedBreaks :
        /\ row.break_type \in {"MISSING_EXTERNAL_TRADE", "MISSING_INTERNAL_TRADE"}
              => row.matched_trade_id = None
        /\ IsMismatch(row.break_type)
              => /\ RefersToMatched(row.trade_id)
                 /\ RefersToMatched(row.matched_trade_id)

\* a run has stored a mismatch of a matched pair and a missing trade
C14_Witness ==
    /\ \E row \in dbBreaks :
          /\ IsMismatch(row.break_type)
          /\ StoredSide(row.trade_id, row.matched_trade_id)
    /\ \E row \in dbBreaks :
          /\ row.break_type = "MISSING_INTERNAL_TRADE"
          /\ row.matched_trade_id = None


\* the breaks a run stored
BreaksOfRun(r) == {row \in dbBreaks : row.added_by = r}

\* the cases a run created for a break
CasesOf(r, break_id) ==
    {n \in 1..Len(loc[r].cases) : loc[r].cases[n].break_id = break_id}

\* the run is over and had reached the step that creates the cases
PastCaseStep(r) ==
    /\ pc[r] \in {"returned", "returned_failed"}
    /\ RunOf(r).auto_resolved_breaks # None

ForcedRerun(r) == req[r].force_rerun /\ "COMPLETED" \in loc[r].seen

\* the runs of a date that have neither failed nor been superseded
CurrentRuns(d) ==
    {row \in RunsOfDate(d) : row.status \notin {"FAILED", "SUPERSEDED"}}

\* C16: a forced rerun of a date that has a completed run creates a new run,
\* keeps the prior run and marks it superseded, so that exactly one run of
\* the date is neither failed nor superseded
C16_ForcedRerun ==
    \A r \in Requests :
        (ForcedRerun(r) /\ pc[r] = "returned") =>
            /\ HasRun(r)
            /\ \E prior \in RunsOfDate(req[r].trade_date) : prior.id # r
            /\ Cardinality(CurrentRuns(req[r].trade_date)) = 1



\* the breaks of a run with the ids of their trades, in the order in which
\* the run classifies them
RunBreaks(r) ==
    PairBreaks(loc[r].matches, 1, feeds.config)
        \o UnmatchedBreaks(loc[r].unmatched, 1)

\* the trade of the n-th break of a run
TradeOfBreak(r, n) ==
    CHOOSE t \in Range(loc[r].internal_trades) \cup Range(loc[r].external_trades) :
        t.id = RunBreaks(r)[n].trade_id

\* the severity table: impact in cents
TableSeverity(b, trade) ==
    CASE IsMissing(b.break_type) -> "CRITICAL"
      [] b.break_type = "CURRENCY_MISMATCH" -> "CRITICAL"
      [] b.break_type = "PRICE_MISMATCH" ->
            ImpactBucket(Abs(b.difference) * trade.quantity, "LOW")
      [] b.break_type = "QUANTITY_MISMATCH" ->
            ImpactBucket(Abs(b.difference) * trade.price, "LOW")
      [] b.break_type = "SETTLEMENT_DATE_MISMATCH" -> "MEDIUM"
      [] b.break_type \in {"COUNTERPARTY_MISMATCH", "ACCOUNT_MISMATCH"} -> "HIGH"

StepRank(step) ==
    CASE step = "request" -> 0
      [] step = "create" -> 1
      [] step = "ingest_internal" -> 2
      [] step = "ingest_external" -> 3
      [] step = "match" -> 4
      [] step = "persist" -> 5
      [] step = "identify" -> 6
      [] step = "analyze" -> 7
      [] step = "auto_resolve" -> 8
      [] step = "cases" -> 9
      [] step = "report" -> 10
      [] step = "returned" -> 11

Undisturbed == {"create", "ingest_internal", "ingest_external", "match", "persist", "identify", "analyze", "auto_resolve", "cases", "report", "returned"}

\* the counters and the status of the run are written after their steps, in
\* this order
CountersInOrder(r) ==
    /\ RunOf(r).total_internal_trades # None <=> StepRank(pc[r]) >= 4
    /\ RunOf(r).total_external_trades # None <=> StepRank(pc[r]) >= 4
    /\ RunOf(r).matched_trades # None <=> StepRank(pc[r]) >= 6
    /\ RunOf(r).new_breaks # None <=> StepRank(pc[r]) >= 7
    /\ RunOf(r).auto_resolved_breaks # None <=> StepRank(pc[r]) >= 9
    /\ RunOf(r).status = "COMPLETED" <=> StepRank(pc[r]) = 11

\* C23: the steps of a run follow one another in the order create-run,
\* ingest and persist trades, match, re-inspect, classify, auto-resolve,
\* emit cases, detect patterns, close; every counter is written only after
\* its step, the pattern detector is called only after auto-resolution and
\* case emission, and status COMPLETED is the last write
C23_StepOrder ==
    \A r \in Requests :
        (HasRun(r) /\ pc[r] \in Undisturbed) =>
            /\ CountersInOrder(r)
            /\ loc[r].patterns_detected => StepRank(pc[r]) >= 10


\* the run read trades, from feeds that all succeeded
ReadTrades(r) ==
    /\ loc[r].internal_trades \o loc[r].external_trades # <<>>
    /\ loc[r].failed_feeds = {}

\* the errors of a feed and of the storage
FeedOrStorageErrors == {"FeedIOError", "IntegrityError", "StorageError"}

\* C27: a run on a set of trades that is not empty, whose feeds all succeed
\* and whose storage does not fail, ends COMPLETED and not FAILED: the trade
\* records handed to the engine carry the id it reads, and the breaks handed
\* on carry the id of their rows
C27_CompletesWithTrades ==
    \A r \in Requests :
        /\ pc[r] = "match" =>
              \A t \in Range(loc[r].internal_trades \o loc[r].external_trades) :
                  HasId(t)
        /\ (/\ pc[r] \in {"returned", "returned_failed", "raised"}
            /\ ReadTrades(r)
            /\ loc[r].error \notin FeedOrStorageErrors) =>
              RunOf(r).status = "COMPLETED"


Least(a, b) == IF a <= b THEN a ELSE b

CountersSet(run) ==
    /\ run.total_internal_trades # None
    /\ run.total_external_trades # None
    /\ run.matched_trades # None
    /\ run.new_breaks # None
    /\ run.auto_resolved_breaks # None
    /\ run.matched_trades
          <= Least(run.total_internal_trades, run.total_external_trades)
    /\ run.auto_resolved_breaks <= run.new_breaks

\* the status of a run in one state and in the next
StatusStep(r) ==
    /\ (~HasRun(r) /\ HasRun(r)') => RunOf(r)'.status = "RUNNING"
    /\ HasRun(r) =>
          /\ HasRun(r)'
          /\ RunOf(r)'.status # RunOf(r).status =>
                /\ RunOf(r).status = "RUNNING"
                /\ RunOf(r)'.status \in {"COMPLETED", "FAILED"}

RunClosed(r) ==
    /\ pc[r] \in {"returned", "returned_failed"} => RunOf(r).status # "RUNNING"
    /\ (HasRun(r) /\ RunOf(r).status = "COMPLETED") => CountersSet(RunOf(r))

StoredBreak(r, n) == CHOOSE row \in dbBreaks : row.id = AutoId(r, n)

-----------------------------------------------------------------------------
(* The run under a cancellation signal *)

\* the steps of a run that are followed by another step
StepsBeforeLast ==
    {"ingest_internal", "ingest_external", "match", "persist", "identify",
     "analyze", "auto_resolve", "cases"}

\* a signal to cancel the run arrives while a step is under way;
\* run_daily_reconciliation takes no such signal and no step reads one
CancelSignal(r) ==
    /\ pc[r] \in StepsBeforeLast
    /\ ~loc[r].cancel_signal
    /\ loc' = [loc EXCEPT ![r].cancel_signal = TRUE]
    /\ UNCHANGED <<engineVars, resolverVars>>
    /\ UNCHANGED <<req, feeds, pc, sess, dbRuns, dbTrades, dbBreaks>>

NextCancel ==
    \/ Next
    \/ \E r \in Requests : CancelSignal(r)

SpecCancel == Init /\ [][NextCancel]_vars

\* C17: a run that was signalled to cancel before its last step takes no
\* step after the one under way and is closed FAILED with the error message
\* "cancelled"
C17_Cancelled ==
    \A r \in Requests :
        (loc[r].cancel_signal /\ pc[r] \in {"returned", "returned_failed"}) =>
            /\ RunOf(r).status = "FAILED"
            /\ RunOf(r).error_message = "cancelled"


-----------------------------------------------------------------------------
(* The scenarios from the matched pair to the resolution *)

\* the breaks of a matched pair, as _identify_breaks asks for them
BreaksOfMatch(match) ==
    identify_breaks(match.internal_trade, match.external_trade, eConfig)

\* _analyze_breaks and _auto_resolve_breaks on one break that has its id
BatchOf(b) ==
    batch_auto_resolve(<<WithKey(categorize_break(b), "id", BreakId(1))>>,
                       RowsOf(<<Item(b, I1, None)>>), 1)

\* the batch resolves the break by this rule with this action
FiresInBatch(b, rule_applied, action) ==
    /\ BatchOf(b).auto_resolved = 1
    /\ BatchOf(b).resolutions[1].rule_applied = rule_applied
    /\ BatchOf(b).resolutions[1].action = action
    /\ \A row \in BatchOf(b).rows : row.status = "AUTO_RESOLVED"

SameButCounterparty(i, e) ==
    /\ i.instrument_id = e.instrument_id
    /\ i.quantity = e.quantity
    /\ i.price = e.price
    /\ i.settlement_date = e.settlement_date

\* the counterparties of the pair are JPMORGAN CHASE and JPM, in either
\* order, and the fields that break detection compares agree
AliasPair(match) ==
    /\ {match.internal_trade.counterparty, match.external_trade.counterparty}
          = {"JPMORGAN CHASE", "JPM"}
    /\ SameButCounterparty(match.internal_trade, match.external_trade)

\* C18: for a matched pair of the aliases JPMORGAN CHASE and JPM whose other
\* fields agree, break detection emits a COUNTERPARTY_MISMATCH break, the
\* classifier gives it severity HIGH, and rule 4 of the auto-resolver fires
\* on it with the action UPDATE_MAPPING, which resolves the break
C18_Scenario3 ==
    \A k \in 1..Len(eMatches) :
        AliasPair(eMatches[k]) =>
            \E n \in 1..Len(BreaksOfMatch(eMatches[k])) :
                /\ BreaksOfMatch(eMatches[k])[n].break_type
                      = "COUNTERPARTY_MISMATCH"
                /\ determine_severity(BreaksOfMatch(eMatches[k])[n]) = "HIGH"
                /\ FiresInBatch(BreaksOfMatch(eMatches[k])[n],
                                "KNOWN_COUNTERPARTY_MAPPING", "UPDATE_MAPPING")

\* the settlement dates of the pair are one day apart and the other fields
\* agree
SettlementDrift(match) ==
    /\ Abs(match.internal_trade.settlement_date
           - match.external_trade.settlement_date) = 1
    /\ match.internal_trade.counterparty = match.external_trade.counterparty
    /\ match.internal_trade.instrument_id = match.external_trade.instrument_id
    /\ match.internal_trade.quantity = match.external_trade.quantity
    /\ match.internal_trade.price = match.external_trade.price

\* C19: for a matched pair whose settlement dates are exactly one day apart
\* and whose other fields agree, break detection produces a
\* SETTLEMENT_DATE_MISMATCH break of severity LOW, the classifier flags it
\* auto_resolvable, and batch_auto_resolve fires rule 1 on it with the
\* action ACCEPT_EXTERNAL
C19_Scenario4 ==
    \A k \in 1..Len(eMatches) :
        SettlementDrift(eMatches[k]) =>
            \E n \in 1..Len(BreaksOfMatch(eMatches[k])) :
                /\ BreaksOfMatch(eMatches[k])[n].break_type
                      = "SETTLEMENT_DATE_MISMATCH"
                /\ BreaksOfMatch(eMatches[k])[n].severity = "LOW"
                /\ categorize_break(BreaksOfMatch(eMatches[k])[n]).auto_resolvable
                /\ FiresInBatch(BreaksOfMatch(eMatches[k])[n],
                                "SETTLEMENT_DATE_T_PLUS_ADJUSTMENT",
                                "ACCEPT_EXTERNAL")

-----------------------------------------------------------------------------
(* Properties of the classifier and the auto-resolver *)

LastResult == rResults[Len(rResults)]

\* a further call of batch_auto_resolve is taken
SecondBatch ==
    /\ Len(rResults) >= 1
    /\ Len(rResults') = Len(rResults) + 1

\* C11: batch_auto_resolve applied a second time to the same list fires no
\* rule: no break is resolved again, and no row's status, resolved_at or
\* resolution_notes changes
C11_SecondBatchIdle ==
    [][SecondBatch =>
          /\ rResults'[Len(rResults')].auto_resolved = 0
          /\ dbBreaks' = dbBreaks]_vars


\* the row stored for the n-th break of the list
RowOfBreak(n) == CHOOSE row \in dbBreaks : row.id = BreakId(n)

AutoResolved(n) == RowOfBreak(n).status = "AUTO_RESOLVED"

\* C12: a break is flagged auto_resolvable only if the severity the
\* classifier assigned is LOW or MEDIUM, and no break classified HIGH or
\* CRITICAL is auto-resolved, whatever the break
C12_OnlyLowOrMedium ==
    \A n \in 1..Len(rBreaks) :
        /\ rBreaks[n].auto_resolvable
              => rBreaks[n].severity \in {"LOW", "MEDIUM"}
        /\ AutoResolved(n) => rBreaks[n].severity \notin {"HIGH", "CRITICAL"}


\* C13 as stated: on every stored break, resolved_at is set exactly when the
\* status is RESOLVED or CLOSED
C13_ResolvedOrClosed ==
    \A row \in dbBreaks :
        row.resolved_at # None <=> row.status \in {"RESOLVED", "CLOSED"}

\* C13: on every stored break, after its creation, after a fire of the
\* auto-resolver and after a manual resolve, resolved_at is set exactly when
\* the status is RESOLVED or AUTO_RESOLVED
C13_ResolvedOrAutoResolved ==
    \A row \in dbBreaks :
        row.resolved_at # None <=> row.status \in {"RESOLVED", "AUTO_RESOLVED"}

\* one break resolved by a rule and one by hand, after the last batch
C13_Witness ==
    /\ \E row \in dbBreaks :
          row.status = "AUTO_RESOLVED" /\ row.resolved_at # None
    /\ \E row \in dbBreaks :
          row.status = "RESOLVED" /\ row.resolved_at # None
    /\ Len(rResults) = MaxBatches


-----------------------------------------------------------------------------
(* Properties of break detection and of the choice among candidates *)

HasBreak(found, break_type) ==
    \E n \in 1..Len(found) : found[n].break_type = break_type

\* the break of this type carries the two values and their difference
CarriesValues(found, break_type, internal_value, external_value) ==
    \A n \in 1..Len(found) :
        found[n].break_type = break_type =>
            /\ found[n].expected_value = internal_value
            /\ found[n].actual_value = external_value
            /\ found[n].difference = external_value - internal_value

Reinspected(match, found) ==
    /\ HasBreak(found, "PRICE_MISMATCH")
          <=> match.internal_trade.price # match.external_trade.price
    /\ HasBreak(found, "QUANTITY_MISMATCH")
          <=> ~WithinPct(match.internal_trade.quantity,
                         match.external_trade.quantity,
                         eConfig.quantity_tolerance_percent)
    /\ CarriesValues(found, "PRICE_MISMATCH", match.internal_trade.price,
                     match.external_trade.price)
    /\ CarriesValues(found, "QUANTITY_MISMATCH", match.internal_trade.quantity,
                     match.external_trade.quantity)

\* C21: for a matched pair a PRICE_MISMATCH break is emitted exactly when the
\* prices differ (20.00 against 20.01 gives one), a QUANTITY_MISMATCH break
\* exactly when the quantities differ by more than the quantity tolerance,
\* and each of them carries expected_value = internal value, actual_value =
\* external value and difference = external - internal
C21_Reinspection ==
    \A k \in 1..Len(eMatches) :
        Reinspected(eMatches[k], BreaksOfMatch(eMatches[k]))


\* the internal trade that comes next has no candidate
NoCandidate ==
    /\ ePc = "running"
    /\ eIdx <= Len(eInternal)
    /\ get_candidates(eInternal[eIdx], eExternal, eMatchedIds, eConfig) = <<>>

\* one more break, of type MISSING_EXTERNAL_TRADE, for the trade
OneMissingExternal(trade) ==
    /\ Len(eBreaks') = Len(eBreaks) + 1
    /\ SubSeq(eBreaks', 1, Len(eBreaks)) = eBreaks
    /\ eBreaks'[Len(eBreaks')].break_type = "MISSING_EXTERNAL_TRADE"
    /\ eBreaks'[Len(eBreaks')].trade = trade

TrueRules(b) == {k \in 1..4 : RuleCondition(k, b) = "true"}

RaisingRules(b) == {k \in 1..4 : RuleCondition(k, b) = "raises"}

FirstOf(S) == CHOOSE k \in S : \A j \in S : k <= j

\* the result names the first rule that is true, or none when none is
FirstTrueRule(b, resolution) ==
    /\ resolution.resolved <=> TrueRules(b) # {}
    /\ resolution.resolved =>
          /\ resolution.rule_applied = RuleName(FirstOf(TrueRules(b)))
          /\ resolution.action = RuleAction(FirstOf(TrueRules(b)))
          /\ resolution.reason = RuleReason(FirstOf(TrueRules(b)))

\* C24: attempt_auto_resolve returns the first rule of the list whose
\* condition is true of the break, a condition that raises counts as false,
\* and when no condition is true the result is unresolved and the break's
\* row is not changed by the resolver
C24_FirstRule ==
    \A n \in 1..Len(rBreaks) :
        /\ FirstTrueRule(rBreaks[n], attempt_auto_resolve(rBreaks[n]))
        /\ TrueRules(rBreaks[n]) = {} => ~AutoResolved(n)

\* a batch has resolved one break by the first rule and has gone past a
\* flagged break on which a condition raised
C24_Witness ==
    /\ Len(rResults) >= 1
    /\ Len(rBreaks) = 2
    /\ \E n \in 1..2 : TrueRules(rBreaks[n]) = {1} /\ AutoResolved(n)
    /\ \E n \in 1..2 :
          /\ rBreaks[n].auto_resolvable
          /\ RaisingRules(rBreaks[n]) # {}
          /\ RowOfBreak(n).status = "OPEN"
    /\ rResults[1].auto_resolved = 1
    /\ rResults[1].failed_resolution = 1


\* the trade ids of the model in lexicographic order
TradeIdsInOrder == <<"T1", "T2", "T3", "T9", "X1", "X2", "X3", "X4", "X6", "X7", "X8", "X9">>

LexRank(trade_id) ==
    CHOOSE k \in 1..Len(TradeIdsInOrder) : TradeIdsInOrder[k] = trade_id

\* a comes before c by time delta, then price delta, then trade_id
Preferred(internal, a, c) ==
    \/ TimeDiffMinutes(internal, a) < TimeDiffMinutes(internal, c)
    \/ /\ TimeDiffMinutes(internal, a) = TimeDiffMinutes(internal, c)
       /\ \/ Abs(internal.price - a.price) < Abs(internal.price - c.price)
          \/ /\ Abs(internal.price - a.price) = Abs(internal.price - c.price)
             /\ LexRank(a.trade_id) <= LexRank(c.trade_id)

SameScore(internal, a, c) ==
    calculate_match_score(internal, a, eConfig)
        = calculate_match_score(internal, c, eConfig)

\* the step matches the internal trade that comes next
MatchAdded ==
    /\ ePc = "running"
    /\ eIdx <= Len(eInternal)
    /\ Len(eMatches') = Len(eMatches) + 1

\* C25: when several candidates of an internal trade have the same best
\* score, the one selected has the smaller time delta, then the smaller
\* price delta, then the lexicographically smaller external trade_id,
\* whatever the order of the external trades
C25_TieBreak ==
    [][MatchAdded =>
          \A c \in Range(get_candidates(eInternal[eIdx], eExternal,
                                        eMatchedIds, eConfig)) :
              SameScore(eInternal[eIdx], eMatches'[Len(eMatches')].external_trade, c)
                  => Preferred(eInternal[eIdx],
                               eMatches'[Len(eMatches')].external_trade, c)]_vars


\* the price difference is exactly the percent tolerance and every other
\* field of the two trades agrees
AtPriceTolerance(internal, external, config) ==
    /\ FLeq(DiffPct(internal.price, external.price),
            config.price_tolerance_percent)
    /\ FLeq(config.price_tolerance_percent,
            DiffPct(internal.price, external.price))
    /\ internal.instrument_id = external.instrument_id
    /\ internal.counterparty = external.counterparty
    /\ internal.quantity = external.quantity
    /\ internal.trade_date = external.trade_date
    /\ internal.settlement_date = external.settlement_date

\* C26: under the default configuration a candidate whose price differs
\* from the internal price by exactly price_tolerance_percent, all other
\* fields agreeing, is accepted as a match
C26_PriceAtTolerance ==
    (/\ ePc = "done"
     /\ eConfig = DefaultMatchConfig
     /\ Len(eInternal) = 1 /\ Len(eExternal) = 1
     /\ AtPriceTolerance(eInternal[1], eExternal[1], eConfig)) =>
        PairIds(eMatches) = {<<eInternal[1].id, eExternal[1].id>>}


\* the quantity component of _calculate_match_score
QuantityScore(internal, external, config) ==
    ProximityScore(DiffPct(internal.quantity, external.quantity),
                   config.quantity_tolerance_percent)

InUnitInterval(x) == FLeq(FInt(0), x) /\ FLeq(x, FInt(1))

\* C29: for an internal trade with a negative quantity no pair is accepted
\* as a match when |delta quantity| exceeds quantity_tolerance_percent times
\* |internal quantity|, and once the trade has been scored the quantity
\* component of the score of any external trade against it lies in [0, 1]
C29_SignedQuantity ==
    /\ \A k \in 1..Len(eMatches) :
          eMatches[k].internal_trade.quantity < 0 =>
              WithinPct(eMatches[k].internal_trade.quantity,
                        eMatches[k].external_trade.quantity,
                        eConfig.quantity_tolerance_percent)
    /\ \A i \in Range(ProcessedInternal), e \in Range(eExternal) :
          i.quantity < 0 => InUnitInterval(QuantityScore(i, e, eConfig))

====
